---------------------------- MODULE Spec2Model ----------------------------
(***************************************************************************)
(* State-machine model of the DSA signature provider contexts of           *)
(* providers/implementations/signature/dsa.c (PROV_DSA_CTX and the         *)
(* functions of ossl_dsa_signature_functions).                             *)
(*                                                                         *)
(* A context is a record with the fields of PROV_DSA_CTX.  EVP_MD_CTX      *)
(* objects live in a heap (mdctxs) and a context holds the address of its  *)
(* own; keys and digests are named objects whose reference counts are     *)
(* kept in refs.  Every dispatch function is                               *)
(* one action; `last` records the most recent call: its function, its      *)
(* context, its return value and the return statement taken.               *)
(***************************************************************************)
EXTENDS Integers, Sequences, FiniteSets, TLC

VARIABLES ctx, mdctxs, refs, last

vars == <<ctx, mdctxs, refs, last>>

-----------------------------------------------------------------------------
(* Bounds of the model *)

\* longest message (in bytes) a digest stream accumulates
MaxMsgLen == 2

\* number of EVP_MD_CTX objects the heap can hold at one time
MaxMdCtx == 2

-----------------------------------------------------------------------------
(* Values *)

NULL == "NULL"

\* the context slots: addresses at which a PROV_DSA_CTX can be allocated
CtxIds == {"c1", "c2"}

MdCtxIds == 1..MaxMdCtx

EVP_PKEY_OP_UNDEFINED == "EVP_PKEY_OP_UNDEFINED"
EVP_PKEY_OP_SIGN == "EVP_PKEY_OP_SIGN"
EVP_PKEY_OP_VERIFY == "EVP_PKEY_OP_VERIFY"

\* K1 passes ossl_dsa_check_key for signing and verifying, K2 (a legacy
\* short key) passes it for verifying only
Keys == {"K1", "K2"}

\* sizeof(ctx->mdname)
OSSL_MAX_NAME_SIZE == 50

\* a name of OSSL_MAX_NAME_SIZE characters, which no provider implements
LongName == "NOSUCH-DIGEST-WITH-A-NAME-OF-FIFTY-CHARACTERS-XXXX"

strlen(name) ==
    CASE name = "SHA2-256" -> 8
      [] name = "SHA1" -> 4
      [] name = "MD5" -> 3
      [] name = "NOSUCH" -> 6
      [] name = LongName -> OSSL_MAX_NAME_SIZE
      [] OTHER -> 0

\* OPENSSL_strlcpy into the name buffer: what fits before the NUL (LongName
\* is the one name that does not fit, and loses its last character)
OPENSSL_strlcpy(src, size) ==
    IF strlen(src) < size THEN src
    ELSE "NOSUCH-DIGEST-WITH-A-NAME-OF-FIFTY-CHARACTERS-XXX"

\* digest names a caller may pass: an allow-listed digest, the legacy weak
\* digest, a digest that is on no list, a name no provider implements, and
\* one that is also too long for the context's name buffer
MdNames == {"SHA2-256", "SHA1", "MD5", "NOSUCH", LongName}

NID_undef == "NID_undef"

\* the chunks a caller feeds to a digest stream
Chunks == {<<0>>, <<1>>, <<0, 1>>}

-----------------------------------------------------------------------------
(* External collaborators (libcrypto), modelled from their contracts *)

\* the provider is in its running state (the default provider always is)
ossl_prov_is_running == TRUE

\* EVP_MD_fetch: the digest object for a name, NULL when no implementation
\* of that name matches the property query
EVP_MD_fetch(mdname, mdprops) ==
    IF mdname \in {"SHA2-256", "SHA1", "MD5"} /\ mdprops # "provider=none"
    THEN mdname ELSE NULL

\* the NID of an approved digest; the legacy weak digest is approved only
\* when sha1_allowed
ossl_digest_get_approved_nid_with_sha1(md, sha1_allowed) ==
    CASE md = "SHA2-256" -> "NID_sha256"
      [] md = "SHA1" -> IF sha1_allowed THEN "NID_sha1" ELSE NID_undef
      [] OTHER -> NID_undef

EVP_MD_size(md) == IF md = "SHA2-256" THEN 32 ELSE IF md = "SHA1" THEN 20 ELSE 16

ossl_dsa_check_key(dsa, sign) == dsa = "K1" \/ (dsa = "K2" /\ ~sign)

\* the maximum size of a signature made with the key
DSA_size(dsa) == IF dsa = "K1" THEN 72 ELSE 48

\* the value a digest stream of algorithm md yields for the bytes data
Hash(md, data) == [val |-> <<md, data>>, len |-> EVP_MD_size(md)]

\* the signature of tbs under the key; flip marks a corrupted byte
DSA_sign_value(dsa, tbs) == [key |-> dsa, tbs |-> tbs.val, flip |-> FALSE]

\* no digest value: dlen = 0 and a buffer nothing was written to
NoDigest == [val |-> <<>>, len |-> 0]

\* no signature: the content of a buffer nothing was written to
NoSig == [key |-> NULL, tbs |-> <<>>, flip |-> FALSE]

Corrupt(sig) == [sig EXCEPT !.flip = TRUE]

\* the encoded length of a signature: at most DSA_size of its key
SigLen(sig) == DSA_size(sig.key) - 2

DSA_verify(tbs, sig, dsa) ==
    IF sig = DSA_sign_value(dsa, tbs) THEN 1 ELSE 0

\* The heap h of EVP_MD_CTX objects is a function from the addresses in use
\* (a subset of MdCtxIds; the null pointer is 0) to the objects.  An object
\* holds its digest, the bytes fed to it, and whether EVP_DigestFinal_ex has
\* been called on it.
NewMdCtx == [md |-> NULL, data |-> <<>>, fin |-> FALSE]

FreeMdCtxIds(h) == MdCtxIds \ DOMAIN h

\* EVP_MD_CTX_new: the address of a fresh object, 0 when allocation fails
EVP_MD_CTX_new(h, alloc_ok) ==
    IF alloc_ok /\ FreeMdCtxIds(h) # {}
    THEN CHOOSE i \in FreeMdCtxIds(h) : \A j \in FreeMdCtxIds(h) : i <= j
    ELSE 0

\* the heap after EVP_MD_CTX_new returned mdctx
Allocate(h, mdctx) ==
    IF mdctx = 0 THEN h
    ELSE [i \in DOMAIN h \cup {mdctx} |-> IF i = mdctx THEN NewMdCtx ELSE h[i]]

\* The heap once the only pointer to the object at mdctx is overwritten: the
\* object stays allocated, and since nothing can read it again its content
\* is left out of the state.
Unreachable == [md |-> NULL, data |-> <<>>, fin |-> TRUE]

Overwritten(h, mdctx) ==
    IF mdctx = 0 THEN h ELSE [h EXCEPT ![mdctx] = Unreachable]

EVP_MD_CTX_free(h, mdctx) ==
    IF mdctx = 0 THEN h ELSE [i \in DOMAIN h \ {mdctx} |-> h[i]]


\* EVP_DigestInit_ex: binds the object to md and empties it; fails when no
\* digest is given or the digest's own init fails
EVP_DigestInit_ex(h, mdctx, md, init_ok) ==
    IF md = NULL \/ ~init_ok
    THEN [h |-> h, ret |-> 0]
    ELSE [h |-> [h EXCEPT ![mdctx] = [md |-> md, data |-> <<>>, fin |-> FALSE]],
          ret |-> 1]

\* EVP_DigestUpdate: appends the chunk to the bytes of the stream
EVP_DigestUpdate(h, mdctx, data, upd_ok) ==
    IF ~upd_ok
    THEN [h |-> h, ret |-> 0]
    ELSE [h |-> [h EXCEPT ![mdctx].data = @ \o data], ret |-> 1]

\* EVP_DigestFinal_ex: the digest of the bytes fed since EVP_DigestInit_ex.
\* An object that was finalised before yields a value that is the digest of
\* no message.
EVP_DigestFinal_ex(h, mdctx, fin_ok) ==
    IF ~fin_ok
    THEN [h |-> h, ret |-> 0, digest |-> NoDigest]
    ELSE [h |-> [h EXCEPT ![mdctx].fin = TRUE],
          ret |-> 1,
          digest |-> IF h[mdctx].fin
                     THEN [val |-> <<h[mdctx].md, h[mdctx].data, "stale">>,
                           len |-> EVP_MD_size(h[mdctx].md)]
                     ELSE Hash(h[mdctx].md, h[mdctx].data)]

\* EVP_MD_CTX_copy_ex: out becomes a deep copy of in
EVP_MD_CTX_copy_ex(h, out, in, copy_ok) ==
    IF ~copy_ok THEN [h |-> h, ret |-> 0]
    ELSE [h |-> [h EXCEPT ![out] = h[in]], ret |-> 1]

\* The reference counts r of the key and digest objects: r[obj] counts the
\* references the contexts of this provider took and have not given back.
\* DSA_up_ref and EVP_MD_up_ref (and a successful EVP_MD_fetch) take one,
\* DSA_free and EVP_MD_free give one back; all accept NULL.
DSA_up_ref(r, dsa) == IF dsa = NULL THEN r ELSE [r EXCEPT ![dsa] = @ + 1]

DSA_free(r, dsa) == IF dsa = NULL THEN r ELSE [r EXCEPT ![dsa] = @ - 1]

EVP_MD_up_ref(r, md) == IF md = NULL THEN r ELSE [r EXCEPT ![md] = @ + 1]

EVP_MD_free(r, md) == IF md = NULL THEN r ELSE [r EXCEPT ![md] = @ - 1]

\* the DER AlgorithmIdentifier of DSA with the digest of md_nid
DER_DSA_with_MD(md_nid) == <<"id-dsa-with", md_nid>>

AidLen(md_nid) == 11

\* ossl_dsa_sign_int: the signature, or failure of the primitive
ossl_dsa_sign_int(tbs, dsa, sign_ok) ==
    IF sign_ok
    THEN [ret |-> 1, sig |-> DSA_sign_value(dsa, tbs),
          sltmp |-> SigLen(DSA_sign_value(dsa, tbs))]
    ELSE [ret |-> 0, sig |-> NoSig, sltmp |-> 0]

-----------------------------------------------------------------------------
(* PROV_DSA_CTX and the functions of dsa.c *)

\* OPENSSL_zalloc(sizeof(PROV_DSA_CTX))
ZeroCtx ==
    [propq |-> NULL, dsa |-> NULL, flag_allow_md |-> 0, mdname |-> "",
     aid_buf |-> <<>>, aid |-> NULL, aid_len |-> 0,
     md |-> NULL, mdctx |-> 0, operation |-> EVP_PKEY_OP_UNDEFINED]

dsa_get_md_size(p) == IF p.md # NULL THEN EVP_MD_size(p.md) ELSE 0

\* a variant of dsa_newctx that leaves flag_allow_md as OPENSSL_zalloc
\* made it
dsa_newctx_zeroed(propq, alloc_ok, strdup_ok) ==
    IF ~alloc_ok \/ (propq # NULL /\ ~strdup_ok)
    THEN [ret |-> 0, p |-> ZeroCtx]
    ELSE [ret |-> 1, p |-> [ZeroCtx EXCEPT !.propq = propq]]

\* ret = 0 stands for the NULL the function returns when an allocation
\* fails, and p is then not allocated
dsa_newctx(propq, alloc_ok, strdup_ok) ==
    IF ~ossl_prov_is_running \/ ~alloc_ok
    THEN [ret |-> 0, p |-> ZeroCtx]
    ELSE IF propq # NULL /\ ~strdup_ok
    THEN [ret |-> 0, p |-> ZeroCtx]
    ELSE [ret |-> 1, p |-> [ZeroCtx EXCEPT !.flag_allow_md = 1, !.propq = propq]]

\* a variant of sha1_allowed that lets SHA1 through for signing too
sha1_always_allowed(p) == TRUE

\* SHA1 is allowed for everything except signing
sha1_allowed(p) == (p.operation # EVP_PKEY_OP_SIGN)

\* a variant of dsa_setup_md that releases the stream before it looks at
\* what EVP_MD_fetch returned
dsa_setup_md_free_first(self, p, h, mdname, mdprops_in, der) ==
    LET mdprops == IF mdprops_in = NULL THEN p.propq ELSE mdprops_in
        md == EVP_MD_fetch(mdname, mdprops)
        md_nid == ossl_digest_get_approved_nid_with_sha1(md, sha1_allowed(p))
        q == [p EXCEPT !.mdctx = 0]
    IN  IF mdname = NULL
        THEN [p |-> p, h |-> h, ret |-> 1, err |-> {}]
        ELSE IF md = NULL \/ md_nid = NID_undef
        THEN [p |-> q, h |-> EVP_MD_CTX_free(h, p.mdctx), ret |-> 0,
              err |-> {"PROV_R_INVALID_DIGEST", "PROV_R_DIGEST_NOT_ALLOWED"}]
        ELSE [p |-> [q EXCEPT !.aid_len = AidLen(md_nid),
                              !.aid_buf = DER_DSA_with_MD(md_nid),
                              !.aid = self, !.md = md, !.mdname = mdname],
              h |-> EVP_MD_CTX_free(h, p.mdctx), ret |-> 1, err |-> {}]

\* self is the address of the context p; der tells whether the DER writer
\* succeeds (when WPACKET_init_der fails nothing is written to aid_buf)
dsa_setup_md(self, p, h, mdname, mdprops_in, der) ==
    LET mdprops == IF mdprops_in = NULL THEN p.propq ELSE mdprops_in IN
    IF mdname # NULL
    THEN LET md == EVP_MD_fetch(mdname, mdprops)
             md_nid == ossl_digest_get_approved_nid_with_sha1(md,
                                                              sha1_allowed(p))
         IN  IF md = NULL \/ md_nid = NID_undef
             THEN [p |-> p, h |-> h, ret |-> 0,
                   err |-> (IF md = NULL THEN {"PROV_R_INVALID_DIGEST"} ELSE {})
                           \cup (IF md_nid = NID_undef
                                 THEN {"PROV_R_DIGEST_NOT_ALLOWED"} ELSE {})
                           \cup (IF strlen(mdname) >= OSSL_MAX_NAME_SIZE
                                 THEN {"PROV_R_INVALID_DIGEST"} ELSE {})]
             ELSE [p |-> [p EXCEPT
                            !.aid_len = IF der THEN AidLen(md_nid) ELSE 0,
                            !.aid_buf = IF der THEN DER_DSA_with_MD(md_nid) ELSE @,
                            !.aid = IF der THEN self ELSE @,
                            !.mdctx = 0,
                            !.md = md,
                            !.mdname = OPENSSL_strlcpy(mdname,
                                                       OSSL_MAX_NAME_SIZE)],
                   h |-> EVP_MD_CTX_free(h, p.mdctx),
                   ret |-> 1, err |-> {}]
    ELSE [p |-> p, h |-> h, ret |-> 1, err |-> {}]

dsa_signverify_init(p, vdsa, operation, up_ref_ok) ==
    IF ~ossl_prov_is_running \/ vdsa = NULL \/ ~up_ref_ok
    THEN [p |-> p, ret |-> 0, err |-> {}]
    ELSE LET q == [p EXCEPT !.dsa = vdsa, !.operation = operation] IN
         IF ~ossl_dsa_check_key(vdsa, operation = EVP_PKEY_OP_SIGN)
         THEN [p |-> q, ret |-> 0, err |-> {"PROV_R_INVALID_KEY_LENGTH"}]
         ELSE [p |-> q, ret |-> 1, err |-> {}]

\* a variant of dsa_sign that wants a buffer larger than DSA_size
dsa_sign_larger_buffer(p, sig, sigsize, tbs, sign_ok) ==
    LET r == ossl_dsa_sign_int(tbs, p.dsa, sign_ok) IN
    IF ~sig
    THEN [ret |-> 1, siglen |-> DSA_size(p.dsa), sig |-> NoSig,
          why |-> "size_query", called |-> FALSE]
    ELSE IF sigsize <= DSA_size(p.dsa)
    THEN [ret |-> 0, siglen |-> 0, sig |-> NoSig, why |-> "sigsize",
          called |-> FALSE]
    ELSE IF dsa_get_md_size(p) # 0 /\ tbs.len # dsa_get_md_size(p)
    THEN [ret |-> 0, siglen |-> 0, sig |-> NoSig, why |-> "tbslen",
          called |-> FALSE]
    ELSE IF r.ret <= 0
    THEN [ret |-> 0, siglen |-> 0, sig |-> NoSig, why |-> "sign_int",
          called |-> TRUE]
    ELSE [ret |-> 1, siglen |-> r.sltmp, sig |-> r.sig, why |-> "signed",
          called |-> TRUE]

\* sig tells whether the caller gave a buffer (FALSE: sig == NULL, the size
\* query).  why names the return statement taken, called whether the key
\* primitive was invoked; siglen = 0 when *siglen is not written.
dsa_sign(p, sig, sigsize, tbs, sign_ok) ==
    LET dsasize == DSA_size(p.dsa)
        mdsize == dsa_get_md_size(p)
        r == ossl_dsa_sign_int(tbs, p.dsa, sign_ok)
    IN  IF ~ossl_prov_is_running
        THEN [ret |-> 0, siglen |-> 0, sig |-> NoSig, why |-> "not_running",
              called |-> FALSE]
        ELSE IF ~sig
        THEN [ret |-> 1, siglen |-> dsasize, sig |-> NoSig, why |-> "size_query",
              called |-> FALSE]
        ELSE IF sigsize < dsasize
        THEN [ret |-> 0, siglen |-> 0, sig |-> NoSig, why |-> "sigsize",
              called |-> FALSE]
        ELSE IF mdsize # 0 /\ tbs.len # mdsize
        THEN [ret |-> 0, siglen |-> 0, sig |-> NoSig, why |-> "tbslen",
              called |-> FALSE]
        ELSE IF r.ret <= 0
        THEN [ret |-> 0, siglen |-> 0, sig |-> NoSig, why |-> "sign_int",
              called |-> TRUE]
        ELSE [ret |-> 1, siglen |-> r.sltmp, sig |-> r.sig, why |-> "signed",
              called |-> TRUE]

\* a variant of dsa_verify that takes the digest size from the key
dsa_verify_key_size(p, sig, tbs) ==
    IF tbs.len # DSA_size(p.dsa)
    THEN [ret |-> 0, why |-> "tbslen", called |-> FALSE]
    ELSE [ret |-> DSA_verify(tbs, sig, p.dsa), why |-> "DSA_verify",
          called |-> TRUE]

dsa_verify(p, sig, tbs) ==
    LET mdsize == dsa_get_md_size(p) IN
    IF ~ossl_prov_is_running \/ (mdsize # 0 /\ tbs.len # mdsize)
    THEN [ret |-> 0, why |-> "tbslen", called |-> FALSE]
    ELSE [ret |-> DSA_verify(tbs, sig, p.dsa), why |-> "DSA_verify",
          called |-> TRUE]


\* fail names the first external call that fails ("none": all succeed):
\* "up_ref" DSA_up_ref, "mdctx_new" EVP_MD_CTX_new, "digest_init"
\* EVP_DigestInit_ex.  setup is what dsa_setup_md returned (-1: not
\* called) and setup_md the digest bound when it returned.
dsa_digest_signverify_init(self, p, h, mdname, vdsa, operation, fail, der) ==
    LET p0 == [p EXCEPT !.flag_allow_md = 0]
        r1 == dsa_signverify_init(p0, vdsa, operation, fail # "up_ref")
        r2 == dsa_setup_md(self, r1.p, h, mdname, NULL, der)
        mdctx == EVP_MD_CTX_new(r2.h, fail # "mdctx_new")
        h3 == Allocate(Overwritten(r2.h, r2.p.mdctx), mdctx)
        p3 == [r2.p EXCEPT !.mdctx = mdctx]
        r4 == EVP_DigestInit_ex(h3, mdctx, p3.md, fail # "digest_init")
        error == [p3 EXCEPT !.mdctx = 0, !.md = NULL]
    IN  IF ~ossl_prov_is_running
        THEN [p |-> p, h |-> h, ret |-> 0, why |-> "not_running",
              setup |-> -1, setup_md |-> NULL, err |-> {}]
        ELSE IF r1.ret = 0
        THEN [p |-> r1.p, h |-> h, ret |-> 0, why |-> "signverify_init",
              setup |-> -1, setup_md |-> NULL, err |-> r1.err]
        ELSE IF r2.ret = 0
        THEN [p |-> r2.p, h |-> r2.h, ret |-> 0, why |-> "setup_md",
              setup |-> 0, setup_md |-> r2.p.md, err |-> r2.err]
        ELSE IF mdctx = 0
        THEN [p |-> error, h |-> h3, ret |-> 0, why |-> "mdctx_new",
              setup |-> 1, setup_md |-> r2.p.md, err |-> {}]
        ELSE IF r4.ret = 0
        THEN [p |-> error, h |-> EVP_MD_CTX_free(h3, mdctx), ret |-> 0,
              why |-> "digest_init", setup |-> 1, setup_md |-> r2.p.md,
              err |-> {}]
        ELSE [p |-> p3, h |-> r4.h, ret |-> 1, why |-> "started",
              setup |-> 1, setup_md |-> r2.p.md, err |-> {}]

dsa_digest_signverify_update(p, h, data, upd_ok) ==
    IF p.mdctx = 0
    THEN [h |-> h, ret |-> 0]
    ELSE EVP_DigestUpdate(h, p.mdctx, data, upd_ok)

\* digest is the value handed to dsa_sign (dlen = 0 and an unset buffer in
\* the size query)
dsa_digest_sign_final(p, h, sig, sigsize, fin_ok, sign_ok) ==
    LET f == IF sig THEN EVP_DigestFinal_ex(h, p.mdctx, fin_ok)
             ELSE [h |-> h, ret |-> 1, digest |-> NoDigest]
        q == [p EXCEPT !.flag_allow_md = 1]
        r == dsa_sign(q, sig, sigsize, f.digest, sign_ok)
    IN  IF ~ossl_prov_is_running \/ p.mdctx = 0
        THEN [p |-> p, h |-> h, ret |-> 0, siglen |-> 0, sig |-> NoSig,
              why |-> "no_mdctx", called |-> FALSE, digest |-> NoDigest]
        ELSE IF f.ret = 0
        THEN [p |-> p, h |-> f.h, ret |-> 0, siglen |-> 0, sig |-> NoSig,
              why |-> "digest_final", called |-> FALSE, digest |-> f.digest]
        ELSE [p |-> q, h |-> f.h, ret |-> r.ret, siglen |-> r.siglen,
              sig |-> r.sig, why |-> r.why, called |-> r.called,
              digest |-> f.digest]

dsa_digest_verify_final(p, h, sig, fin_ok) ==
    LET f == EVP_DigestFinal_ex(h, p.mdctx, fin_ok)
        q == [p EXCEPT !.flag_allow_md = 1]
        r == dsa_verify(q, sig, f.digest)
    IN  IF ~ossl_prov_is_running \/ p.mdctx = 0
        THEN [p |-> p, h |-> h, ret |-> 0, why |-> "no_mdctx",
              called |-> FALSE, digest |-> NoDigest]
        ELSE IF f.ret = 0
        THEN [p |-> p, h |-> f.h, ret |-> 0, why |-> "digest_final",
              called |-> FALSE, digest |-> f.digest]
        ELSE [p |-> q, h |-> f.h, ret |-> r.ret, why |-> r.why,
              called |-> r.called, digest |-> f.digest]

\* the heap once the context p is freed
dsa_freectx(p, h) == EVP_MD_CTX_free(h, p.mdctx)

\* a variant of dsa_dupctx that stops after the structure assignment: the
\* duplicate keeps the source's pointers
dsa_dupctx_shallow(srcctx, h, fail) ==
    [ret |-> IF fail = "none" THEN 1 ELSE 0, p |-> srcctx, h |-> h]

\* fail names the first external call that fails ("none": all succeed):
\* "zalloc", "dsa_up_ref", "md_up_ref", "mdctx_new", "mdctx_copy", "strdup".
\* ret = 0 stands for the NULL returned on failure; p is then freed.
dsa_dupctx(srcctx, h, fail) ==
    LET d0 == [srcctx EXCEPT !.dsa = NULL, !.md = NULL, !.mdctx = 0,
                             !.propq = NULL]
        d1 == [d0 EXCEPT !.dsa = srcctx.dsa]
        d2 == [d1 EXCEPT !.md = srcctx.md]
        mdctx == IF srcctx.mdctx # 0
                 THEN EVP_MD_CTX_new(h, fail # "mdctx_new") ELSE 0
        h3 == Allocate(h, mdctx)
        d3 == [d2 EXCEPT !.mdctx = mdctx]
        c4 == IF mdctx # 0
              THEN EVP_MD_CTX_copy_ex(h3, mdctx, srcctx.mdctx,
                                      fail # "mdctx_copy")
              ELSE [h |-> h3, ret |-> 0]
        d4 == [d3 EXCEPT !.propq = srcctx.propq]
    IN  IF ~ossl_prov_is_running \/ fail = "zalloc"
        THEN [ret |-> 0, p |-> d0, h |-> h]
        ELSE IF srcctx.dsa # NULL /\ fail = "dsa_up_ref"
        THEN [ret |-> 0, p |-> d0, h |-> dsa_freectx(d0, h)]
        ELSE IF srcctx.md # NULL /\ fail = "md_up_ref"
        THEN [ret |-> 0, p |-> d1, h |-> dsa_freectx(d1, h)]
        ELSE IF srcctx.mdctx # 0 /\ c4.ret = 0
        THEN [ret |-> 0, p |-> d3, h |-> dsa_freectx(d3, c4.h)]
        ELSE IF srcctx.propq # NULL /\ fail = "strdup"
        THEN [ret |-> 0, p |-> d3, h |-> dsa_freectx(d3, c4.h)]
        ELSE [ret |-> 1, p |-> d4, h |-> c4.h]

\* what a read of freed memory may give for an AlgorithmIdentifier: the
\* bytes that were there, or whatever the allocator has put there since
FreedBytes ==
    {<<>>} \cup {DER_DSA_with_MD(n) : n \in {"NID_sha256", "NID_sha1"}}

\* dsa_get_ctx_params asked for OSSL_SIGNATURE_PARAM_ALGORITHM_ID and
\* OSSL_SIGNATURE_PARAM_DIGEST: the set of the results it can give on the
\* context p when c holds the live contexts.  aid is read through the
\* pointer p.aid, which names the context whose aid_buf it points into;
\* OSSL_PARAM_set_octet_string refuses a NULL pointer.
dsa_get_ctx_params(p, c) ==
    IF p.aid = NULL
    THEN {[ret |-> 0, aid |-> <<>>, aid_len |-> 0, mdname |-> ""]}
    ELSE {[ret |-> 1, aid |-> bytes, aid_len |-> p.aid_len, mdname |-> p.mdname] :
             bytes \in IF p.aid_len = 0 THEN {<<>>}
                       ELSE IF p.aid \in DOMAIN c THEN {c[p.aid].aid_buf}
                       ELSE FreedBytes}

\* OSSL_PARAM_get_utf8_string into a buffer of size bytes: fails when the
\* string and its NUL do not fit
OSSL_PARAM_get_utf8_string(val, size) == strlen(val) < size

\* params holds the values of the OSSL_SIGNATURE_PARAM_DIGEST and
\* OSSL_SIGNATURE_PARAM_PROPERTIES entries, NULL for an entry that is not
\* in the array
dsa_set_ctx_params(self, p, h, params, der) ==
    LET mdprops == IF params.properties # NULL THEN params.properties ELSE ""
        r == dsa_setup_md(self, p, h, params.digest, mdprops, der)
    IN  IF params.digest # NULL /\ p.flag_allow_md = 0
        THEN [p |-> p, h |-> h, ret |-> 0, why |-> "flag_allow_md", err |-> {}]
        ELSE IF params.digest # NULL
        THEN IF ~OSSL_PARAM_get_utf8_string(params.digest, OSSL_MAX_NAME_SIZE)
             THEN [p |-> p, h |-> h, ret |-> 0, why |-> "get_utf8_string",
                   err |-> {}]
             ELSE IF r.ret = 0
             THEN [p |-> r.p, h |-> r.h, ret |-> 0, why |-> "setup_md",
                   err |-> r.err]
             ELSE [p |-> r.p, h |-> r.h, ret |-> 1, why |-> "bound",
                   err |-> r.err]
        ELSE [p |-> p, h |-> h, ret |-> 1, why |-> "no_digest_param",
              err |-> {}]


\* EVP_MD_CTX_get_params and EVP_MD_CTX_set_params on a stream object: the
\* digest's own answer (md_ok: whether it knows the parameter)
EVP_MD_CTX_get_params(h, mdctx, md_ok) == IF md_ok THEN 1 ELSE 0

EVP_MD_CTX_set_params(h, mdctx, md_ok) == IF md_ok THEN 1 ELSE 0

\* forwarded tells whether the call reached the digest
dsa_get_ctx_md_params(p, h, md_ok) ==
    IF p.mdctx = 0
    THEN [ret |-> 0, forwarded |-> FALSE]
    ELSE [ret |-> EVP_MD_CTX_get_params(h, p.mdctx, md_ok), forwarded |-> TRUE]

dsa_set_ctx_md_params(p, h, md_ok) ==
    IF p.mdctx = 0
    THEN [ret |-> 0, forwarded |-> FALSE]
    ELSE [ret |-> EVP_MD_CTX_set_params(h, p.mdctx, md_ok), forwarded |-> TRUE]

-----------------------------------------------------------------------------
(* The references the functions of dsa.c take and give back: for each      *)
(* function, the counts r after a call with the same arguments              *)

\* a variant of dsa_signverify_init_refs without the DSA_free of the key
\* that is replaced
dsa_signverify_init_refs_no_free(r, p, vdsa, up_ref_ok) ==
    IF vdsa = NULL \/ ~up_ref_ok THEN r ELSE DSA_up_ref(r, vdsa)

dsa_signverify_init_refs(r, p, vdsa, up_ref_ok) ==
    IF ~ossl_prov_is_running \/ vdsa = NULL \/ ~up_ref_ok
    THEN r
    ELSE DSA_free(DSA_up_ref(r, vdsa), p.dsa)

dsa_setup_md_refs(r, p, mdname, mdprops_in) ==
    LET mdprops == IF mdprops_in = NULL THEN p.propq ELSE mdprops_in IN
    IF mdname # NULL
    THEN LET md == EVP_MD_fetch(mdname, mdprops)
             md_nid == ossl_digest_get_approved_nid_with_sha1(md,
                                                              sha1_allowed(p))
             fetched == EVP_MD_up_ref(r, md)
         IN  IF md = NULL \/ md_nid = NID_undef
             THEN EVP_MD_free(fetched, md)
             ELSE EVP_MD_free(fetched, p.md)
    ELSE r

dsa_digest_signverify_init_refs(r, self, p, h, mdname, vdsa, operation, fail, der) ==
    LET p0 == [p EXCEPT !.flag_allow_md = 0]
        r1 == dsa_signverify_init(p0, vdsa, operation, fail # "up_ref")
        n1 == dsa_signverify_init_refs(r, p0, vdsa, fail # "up_ref")
        r2 == dsa_setup_md(self, r1.p, h, mdname, NULL, der)
        n2 == dsa_setup_md_refs(n1, r1.p, mdname, NULL)
        call == dsa_digest_signverify_init(self, p, h, mdname, vdsa, operation,
                                           fail, der)
    IN  IF ~ossl_prov_is_running THEN r
        ELSE IF r1.ret = 0 THEN n1
        ELSE IF r2.ret = 0 THEN n2
        ELSE IF call.ret = 0 THEN EVP_MD_free(n2, r2.p.md)
        ELSE n2

dsa_freectx_refs(r, p) == DSA_free(EVP_MD_free(r, p.md), p.dsa)

dsa_dupctx_refs(r, srcctx, h, fail) ==
    LET call == dsa_dupctx(srcctx, h, fail)
        n1 == DSA_up_ref(r, srcctx.dsa)
        n2 == EVP_MD_up_ref(n1, srcctx.md)
    IN  IF ~ossl_prov_is_running \/ fail = "zalloc" THEN r
        ELSE IF srcctx.dsa # NULL /\ fail = "dsa_up_ref"
        THEN dsa_freectx_refs(r, call.p)
        ELSE IF srcctx.md # NULL /\ fail = "md_up_ref"
        THEN dsa_freectx_refs(n1, call.p)
        ELSE IF call.ret = 0
        THEN dsa_freectx_refs(n2, call.p)
        ELSE n2

dsa_set_ctx_params_refs(r, p, params) ==
    IF /\ params.digest # NULL
       /\ p.flag_allow_md # 0
       /\ OSSL_PARAM_get_utf8_string(params.digest, OSSL_MAX_NAME_SIZE)
    THEN dsa_setup_md_refs(r, p, params.digest,
                           IF params.properties # NULL THEN params.properties
                           ELSE "")
    ELSE r

-----------------------------------------------------------------------------
(* The state machine: the calls a host makes through the dispatch table *)

\* the contexts in use (ctx maps their addresses to their contents)
Live == DOMAIN ctx

Put(c, p) == [x \in Live \cup {c} |-> IF x = c THEN p ELSE ctx[x]]

\* the record of a call: its function, its context (and for dupctx the
\* address of the duplicate), its return value and the return statement
\* taken (why)
Call(op, c, d, ret, why) ==
    [op |-> op, c |-> c, d |-> d, ret |-> ret, why |-> why]

\* what is recorded of a call when the host draws its inputs from I: all of
\* it for the functions in I.trace, only that a call was made for the others
Trace(I, call) ==
    IF call.op \in I.trace THEN call
    ELSE Call("call", NULL, NULL, 0, "")

\* the objects that are reference counted: the keys and the digests a
\* provider implements
Objects == Keys \cup {n \in MdNames : EVP_MD_fetch(n, "") # NULL}

Init ==
    /\ ctx = [c \in {} |-> ZeroCtx]
    /\ mdctxs = [i \in {} |-> NewMdCtx]
    /\ refs = [obj \in Objects |-> 0]
    /\ last = Call("none", NULL, NULL, 0, "")

\* already-digested inputs of the one-shot calls
TbsInputs == {Hash(md, <<0>>) : md \in {"SHA2-256", "SHA1"}}

\* the signatures a caller presents to a context with key dsa for the input
\* tbs: the one the key makes of tbs, and that one with a byte corrupted
SigInputs(dsa, tbs) ==
    {DSA_sign_value(dsa, tbs), Corrupt(DSA_sign_value(dsa, tbs))}

\* the sizes of the buffer a caller passes to a context with key dsa
SigSizes(dsa) == {DSA_size(dsa) - 1, DSA_size(dsa)}

\* the value a real finalize of the stream of context p would extract
StreamDigest(p, h) ==
    IF p.mdctx = 0 THEN NoDigest ELSE EVP_DigestFinal_ex(h, p.mdctx, TRUE).digest

\* The actions take the inputs the host draws from as a record I:
\*   I.propq   property queries given to dsa_newctx
\*   I.keys    keys given to the init functions (NULL: no key)
\*   I.mdnames digest names given to the init functions and to set_ctx_params
\*   I.props   OSSL_SIGNATURE_PARAM_PROPERTIES values (NULL: not in the array)
\*   I.fail    whether external calls (allocation, reference counting, digest
\*             and key primitives) may fail
\*   I.der     whether the DER writer may fail
\*   I.chunks  the chunks fed to a stream
\*   I.maxlen  the most bytes fed to one stream
\*   I.trace   the functions whose calls are recorded in full
\* At most one external call fails in one call of the host.
Fails(I, labels) == IF I.fail THEN {"none"} \cup labels ELSE {"none"}

Oks(I) == IF I.fail THEN BOOLEAN ELSE {TRUE}

DerOks(I) == IF I.der THEN BOOLEAN ELSE {TRUE}

NewCtx(c, I) ==
    /\ c \notin Live
    /\ \E propq \in I.propq, fail \in Fails(I, {"zalloc", "strdup"}) :
         LET r == dsa_newctx(propq, fail # "zalloc", fail # "strdup") IN
         /\ ctx' = IF r.ret = 1 THEN Put(c, r.p) ELSE ctx
         /\ last' = Trace(I, Call("newctx", c, NULL, r.ret, fail))
    /\ UNCHANGED <<mdctxs, refs>>

SignVerifyInit(c, I) ==
    /\ c \in Live
    /\ \E vdsa \in I.keys,
          operation \in {EVP_PKEY_OP_SIGN, EVP_PKEY_OP_VERIFY},
          up_ref_ok \in Oks(I) :
         LET r == dsa_signverify_init(ctx[c], vdsa, operation, up_ref_ok) IN
         /\ ctx' = Put(c, r.p)
         /\ refs' = dsa_signverify_init_refs(refs, ctx[c], vdsa, up_ref_ok)
         /\ last' = Trace(I, Call("signverify_init", c, NULL, r.ret,
                         IF r.ret = 1 THEN "initialised"
                         ELSE IF r.err # {} THEN "check_key" ELSE "up_ref"))
    /\ UNCHANGED mdctxs

\* dsa_sign and dsa_verify read the key (DSA_size, DSA_verify): the host
\* calls them on a context that was given one
Sign(c, I) ==
    /\ c \in Live
    /\ ctx[c].dsa # NULL
    /\ \E sig \in BOOLEAN, sigsize \in SigSizes(ctx[c].dsa),
          tbs \in TbsInputs, sign_ok \in Oks(I) :
         LET r == dsa_sign(ctx[c], sig, sigsize, tbs, sign_ok) IN
         last' = Trace(I, Call("sign", c, NULL, r.ret, r.why))
    /\ UNCHANGED <<ctx, mdctxs, refs>>

Verify(c, I) ==
    /\ c \in Live
    /\ ctx[c].dsa # NULL
    /\ \E tbs \in TbsInputs :
       \E sig \in SigInputs(ctx[c].dsa, tbs) :
         LET r == dsa_verify(ctx[c], sig, tbs) IN
         last' = Trace(I, Call("verify", c, NULL, r.ret, r.why))
    /\ UNCHANGED <<ctx, mdctxs, refs>>

DigestSignVerifyInit(c, I) ==
    /\ c \in Live
    /\ \E mdname \in I.mdnames, vdsa \in I.keys,
          operation \in {EVP_PKEY_OP_SIGN, EVP_PKEY_OP_VERIFY},
          fail \in Fails(I, {"up_ref", "mdctx_new", "digest_init"}),
          der \in DerOks(I) :
         /\ fail = "none" \/ der
         /\ LET r == dsa_digest_signverify_init(c, ctx[c], mdctxs, mdname, vdsa,
                                             operation, fail, der) IN
            /\ ctx' = Put(c, r.p)
            /\ mdctxs' = r.h
            /\ refs' = dsa_digest_signverify_init_refs(refs, c, ctx[c], mdctxs,
                                                       mdname, vdsa, operation,
                                                       fail, der)
            /\ last' = Trace(I, Call("digest_signverify_init", c, NULL, r.ret, r.why))

DigestSignVerifyUpdate(c, I) ==
    /\ c \in Live
    /\ \E data \in I.chunks, upd_ok \in Oks(I) :
         /\ ctx[c].mdctx # 0 =>
               Len(mdctxs[ctx[c].mdctx].data) + Len(data) <= I.maxlen
         /\ LET r == dsa_digest_signverify_update(ctx[c], mdctxs, data, upd_ok)
            IN  /\ mdctxs' = r.h
                /\ last' = Trace(I, Call("digest_signverify_update", c, NULL, r.ret, ""))
    /\ UNCHANGED <<ctx, refs>>

DigestSignFinal(c, I) ==
    /\ c \in Live
    /\ ctx[c].dsa # NULL
    /\ \E sig \in BOOLEAN, sigsize \in SigSizes(ctx[c].dsa),
          fin_ok \in Oks(I), sign_ok \in Oks(I) :
         /\ fin_ok \/ sign_ok
         /\ LET r == dsa_digest_sign_final(ctx[c], mdctxs, sig, sigsize,
                                           fin_ok, sign_ok) IN
            /\ ctx' = Put(c, r.p)
            /\ mdctxs' = r.h
            /\ last' = Trace(I, Call("digest_sign_final", c, NULL, r.ret, r.why))
    /\ UNCHANGED refs

DigestVerifyFinal(c, I) ==
    /\ c \in Live
    /\ ctx[c].dsa # NULL
    /\ \E sig \in SigInputs(ctx[c].dsa, StreamDigest(ctx[c], mdctxs)),
          fin_ok \in Oks(I) :
         LET r == dsa_digest_verify_final(ctx[c], mdctxs, sig, fin_ok) IN
         /\ ctx' = Put(c, r.p)
         /\ mdctxs' = r.h
         /\ last' = Trace(I, Call("digest_verify_final", c, NULL, r.ret, r.why))
    /\ UNCHANGED refs

FreeCtx(c, I) ==
    /\ c \in Live
    /\ mdctxs' = dsa_freectx(ctx[c], mdctxs)
    /\ ctx' = [x \in Live \ {c} |-> ctx[x]]
    /\ refs' = dsa_freectx_refs(refs, ctx[c])
    /\ last' = Trace(I, Call("freectx", c, NULL, 1, ""))

\* d is the address OPENSSL_zalloc returns for the duplicate
DupCtx(c, d, I) ==
    /\ c \in Live
    /\ d \notin Live
    /\ \E fail \in Fails(I, {"zalloc", "dsa_up_ref", "md_up_ref", "mdctx_new",
                             "mdctx_copy", "strdup"}) :
         LET r == dsa_dupctx(ctx[c], mdctxs, fail) IN
         /\ ctx' = IF r.ret = 1 THEN Put(d, r.p) ELSE ctx
         /\ mdctxs' = r.h
         /\ refs' = dsa_dupctx_refs(refs, ctx[c], mdctxs, fail)
         /\ last' = Trace(I, Call("dupctx", c, d, r.ret, fail))

SetCtxParams(c, I) ==
    /\ c \in Live
    /\ \E digest \in I.mdnames, properties \in I.props, der \in DerOks(I) :
         LET r == dsa_set_ctx_params(c, ctx[c], mdctxs,
                                     [digest |-> digest,
                                      properties |-> properties], der) IN
         /\ ctx' = Put(c, r.p)
         /\ mdctxs' = r.h
         /\ refs' = dsa_set_ctx_params_refs(refs, ctx[c],
                                             [digest |-> digest,
                                              properties |-> properties])
         /\ last' = Trace(I, Call("set_ctx_params", c, NULL, r.ret, r.why))

GetCtxParams(c, I) ==
    /\ c \in Live
    /\ \E r \in dsa_get_ctx_params(ctx[c], ctx) :
         last' = Trace(I, Call("get_ctx_params", c, NULL, r.ret, ""))
    /\ UNCHANGED <<ctx, mdctxs, refs>>

GetCtxMdParams(c, I) ==
    /\ c \in Live
    /\ \E md_ok \in Oks(I) :
         LET r == dsa_get_ctx_md_params(ctx[c], mdctxs, md_ok) IN
         last' = Trace(I, Call("get_ctx_md_params", c, NULL, r.ret,
                               IF r.forwarded THEN "forwarded" ELSE "no_mdctx"))
    /\ UNCHANGED <<ctx, mdctxs, refs>>

SetCtxMdParams(c, I) ==
    /\ c \in Live
    /\ \E md_ok \in Oks(I) :
         LET r == dsa_set_ctx_md_params(ctx[c], mdctxs, md_ok) IN
         last' = Trace(I, Call("set_ctx_md_params", c, NULL, r.ret,
                               IF r.forwarded THEN "forwarded" ELSE "no_mdctx"))
    /\ UNCHANGED <<ctx, mdctxs, refs>>

\* the calls of a host that uses the contexts C with the inputs I
Calls(C, I) ==
    \E c \in C :
       \/ NewCtx(c, I)
       \/ SignVerifyInit(c, I)
       \/ Sign(c, I)
       \/ Verify(c, I)
       \/ DigestSignVerifyInit(c, I)
       \/ DigestSignVerifyUpdate(c, I)
       \/ DigestSignFinal(c, I)
       \/ DigestVerifyFinal(c, I)
       \/ FreeCtx(c, I)
       \/ SetCtxParams(c, I)
       \/ GetCtxParams(c, I)
       \/ GetCtxMdParams(c, I)
       \/ SetCtxMdParams(c, I)

AllCalls ==
    {"newctx", "signverify_init", "sign", "verify", "digest_signverify_init",
     "digest_signverify_update", "digest_sign_final", "digest_verify_final",
     "freectx", "dupctx", "set_ctx_params", "get_ctx_params",
     "get_ctx_md_params", "set_ctx_md_params"}

\* One context, every key and digest name, every failure of an allocation,
\* a reference count or a primitive
MainInputs ==
    [propq |-> {"provider=default"}, keys |-> Keys \cup {NULL},
     mdnames |-> MdNames \cup {NULL}, props |-> {NULL, "provider=none"},
     fail |-> TRUE, der |-> FALSE, chunks |-> {<<0>>, <<0, 0>>},
     maxlen |-> MaxMsgLen, trace |-> AllCalls]

Next == Calls({"c1"}, MainInputs)

Spec == Init /\ [][Next]_vars

\* Two contexts (a context and its duplicate, a signer and a verifier) with
\* one key, an approved digest and no failing external call
PairInputs ==
    [propq |-> {"provider=default"}, keys |-> {"K1"},
     mdnames |-> {"SHA2-256"}, props |-> {NULL}, fail |-> FALSE,
     der |-> FALSE, chunks |-> {<<0>>, <<1>>}, maxlen |-> MaxMsgLen,
     trace |-> {"dupctx"}]

NextPair ==
    \/ Calls(CtxIds, PairInputs)
    \/ \E c, d \in CtxIds : DupCtx(c, d, PairInputs)

SpecPair == Init /\ [][NextPair]_vars

\* Two contexts with one key and an approved digest, where every external
\* call of the init functions, of dsa_dupctx and of the stream may fail
FaultInputs ==
    [propq |-> {"provider=default"}, keys |-> {"K1"},
     mdnames |-> {"SHA2-256"}, props |-> {NULL}, fail |-> TRUE,
     der |-> FALSE, chunks |-> {<<0>>}, maxlen |-> MaxMsgLen,
     trace |-> {"dupctx"}]

NextFault ==
    \/ Calls(CtxIds, FaultInputs)
    \/ \E c, d \in CtxIds : DupCtx(c, d, FaultInputs)

SpecFault == Init /\ [][NextFault]_vars

-----------------------------------------------------------------------------
(* Properties *)

\* a stream was started on the context and no finalize has extracted its
\* digest value yet
InProgress(p, h) == p.mdctx # 0 /\ ~h[p.mdctx].fin

\* the return statements of a finalize that come after EVP_DigestFinal_ex
\* extracted the digest value
Extracted == {"sigsize", "tbslen", "sign_int", "signed", "DSA_verify"}

\* the digests approved for the operation of the context p
Approved(p) ==
    {n \in MdNames :
        ossl_digest_get_approved_nid_with_sha1(
            EVP_MD_fetch(n, ""), p.operation # EVP_PKEY_OP_SIGN) # NID_undef}

\* what set_ctx_params with a digest name and no properties would return
SetDigest(c, name) ==
    dsa_set_ctx_params(c, ctx[c], mdctxs,
                       [digest |-> name, properties |-> NULL], TRUE)

\* C1: digest lock.  While a stream is in progress on a context (from a
\* successful digest init until a finalize has extracted the digest value),
\* every set_ctx_params call that carries a digest name fails and leaves
\* the context and its stream unchanged; once a finalize has extracted the
\* digest value, whatever the delegated sign or verify returned, a
\* set_ctx_params call naming an approved digest succeeds.
C1_DigestLock ==
    \A c \in Live :
       /\ InProgress(ctx[c], mdctxs) =>
             \A name \in MdNames :
                /\ SetDigest(c, name).ret = 0
                /\ SetDigest(c, name).p = ctx[c]
                /\ SetDigest(c, name).h = mdctxs
       /\ ( /\ last.c = c
            /\ last.op \in {"digest_sign_final", "digest_verify_final"}
            /\ last.why \in Extracted ) =>
             \A name \in Approved(ctx[c]) : SetDigest(c, name).ret = 1

\* C2: no signature is made with the legacy weak digest: no sign or
\* digest_sign_final call returns a signature on a context whose bound
\* digest is SHA1 (stated for the contexts initialised for signing).
C2_NoWeakSignature ==
    ( /\ last.op \in {"sign", "digest_sign_final"}
      /\ last.ret = 1
      /\ last.why = "signed"
      /\ ctx[last.c].operation = EVP_PKEY_OP_SIGN ) => ctx[last.c].md # "SHA1"

\* what binding the digest name on context c would return (the property
\* query of the context resolves the name)
Bind(c, name) == dsa_setup_md(c, ctx[c], mdctxs, name, NULL, TRUE)

\* C3: weak-digest asymmetry at bind time.  On a context whose operation is
\* Verify, binding SHA1 succeeds and stores it as the bound digest; on a
\* context whose operation is Sign it fails with PROV_R_DIGEST_NOT_ALLOWED
\* and changes nothing; a digest on neither list (MD5) fails for both.  What
\* a set_ctx_params call binds on a Sign context is never SHA1.
C3_WeakDigestAsymmetry ==
    /\ \A c \in Live :
          /\ ctx[c].operation = EVP_PKEY_OP_VERIFY =>
                /\ Bind(c, "SHA1").ret = 1
                /\ Bind(c, "SHA1").p.md = "SHA1"
                /\ Bind(c, "MD5").ret = 0
          /\ ctx[c].operation = EVP_PKEY_OP_SIGN =>
                /\ Bind(c, "SHA1").ret = 0
                /\ "PROV_R_DIGEST_NOT_ALLOWED" \in Bind(c, "SHA1").err
                /\ Bind(c, "SHA1").p = ctx[c]
                /\ Bind(c, "SHA1").h = mdctxs
                /\ Bind(c, "MD5").ret = 0
    /\ ( /\ last.op = "set_ctx_params"
         /\ last.why = "bound"
         /\ ctx[last.c].operation = EVP_PKEY_OP_SIGN ) =>
            ctx[last.c].md # "SHA1"

\* a set_ctx_params call bound SHA1 on a Verify context
C3_Witness ==
    /\ last.op = "set_ctx_params"
    /\ last.why = "bound"
    /\ ctx[last.c].operation = EVP_PKEY_OP_VERIFY
    /\ ctx[last.c].md = "SHA1"

\* C4: re-initialization resets the digest state: a successful
\* dsa_sign_init or dsa_verify_init on a context that has a bound digest
\* leaves it with no bound digest, an empty digest name, an
\* AlgorithmIdentifier of length 0 and no stream.
C4_ReinitResetsDigest ==
    [][ ( /\ last'.op = "signverify_init"
          /\ last'.ret = 1
          /\ ctx[last'.c].md # NULL ) =>
            /\ ctx'[last'.c].md = NULL
            /\ ctx'[last'.c].mdname = ""
            /\ ctx'[last'.c].aid_len = 0
            /\ ctx'[last'.c].mdctx = 0 ]_vars

\* C5: in every state of every context, if it holds a stream then a digest
\* is bound and flag_allow_md is 0.
C5_StreamImpliesLocked ==
    \A c \in Live :
       ctx[c].mdctx # 0 => (ctx[c].md # NULL /\ ctx[c].flag_allow_md = 0)

C7_MismatchDistinguishable ==
    \A c \in Live :
       (ctx[c].md # NULL /\ ctx[c].dsa # NULL) =>
          \A wrong \in {t \in TbsInputs : t.len # dsa_get_md_size(ctx[c])},
             right \in {t \in TbsInputs : t.len = dsa_get_md_size(ctx[c])} :
             /\ \A sig \in SigInputs(ctx[c].dsa, wrong) :
                   dsa_verify(ctx[c], sig, wrong).ret #
                   dsa_verify(ctx[c],
                              Corrupt(DSA_sign_value(ctx[c].dsa, right)),
                              right).ret
             /\ dsa_sign(ctx[c], TRUE, DSA_size(ctx[c].dsa), wrong, TRUE).ret = 0
             /\ ~dsa_sign(ctx[c], TRUE, DSA_size(ctx[c].dsa), wrong, TRUE).called

\* the context c signs for the context d: both have the same valid key and
\* the same approved digest, c is initialised for signing and d for
\* verifying
SignsFor(c, d) ==
    /\ c # d
    /\ ctx[c].operation = EVP_PKEY_OP_SIGN
    /\ ctx[d].operation = EVP_PKEY_OP_VERIFY
    /\ ctx[c].dsa # NULL
    /\ ctx[c].dsa = ctx[d].dsa
    /\ ossl_dsa_check_key(ctx[c].dsa, TRUE)
    /\ ctx[c].md # NULL
    /\ ctx[c].md = ctx[d].md
    /\ ossl_digest_get_approved_nid_with_sha1(ctx[c].md, FALSE) # NID_undef

\* the streams of c and d were started and fed the same bytes
SameStream(c, d) ==
    /\ InProgress(ctx[c], mdctxs)
    /\ InProgress(ctx[d], mdctxs)
    /\ mdctxs[ctx[c].mdctx] = mdctxs[ctx[d].mdctx]

\* C8: round trip through both paths.  When a signing and a verifying
\* context with the same valid key and approved digest were fed the same
\* chunks, dsa_digest_sign_final gives a signature no longer than DSA_size
\* that dsa_digest_verify_final accepts on the verifier, and rejects once
\* a byte of it is changed; dsa_verify accepts what dsa_sign makes of an
\* input of the digest's size.
C8_RoundTrip ==
    \A c, d \in Live :
       SignsFor(c, d) =>
          /\ SameStream(c, d) =>
                LET s == dsa_digest_sign_final(ctx[c], mdctxs, TRUE,
                                               DSA_size(ctx[c].dsa), TRUE, TRUE)
                IN  /\ s.ret = 1
                    /\ s.siglen <= DSA_size(ctx[c].dsa)
                    /\ s.siglen = SigLen(s.sig)
                    /\ dsa_digest_verify_final(ctx[d], s.h, s.sig, TRUE).ret = 1
                    /\ dsa_digest_verify_final(ctx[d], s.h, Corrupt(s.sig),
                                               TRUE).ret = 0
          /\ \A tbs \in {t \in TbsInputs : t.len = dsa_get_md_size(ctx[c])} :
                LET o == dsa_sign(ctx[c], TRUE, DSA_size(ctx[c].dsa), tbs, TRUE)
                IN  /\ o.ret = 1
                    /\ o.siglen <= DSA_size(ctx[c].dsa)
                    /\ dsa_verify(ctx[d], o.sig, tbs).ret = 1
                    /\ dsa_verify(ctx[d], Corrupt(o.sig), tbs).ret = 0

\* a signer and a verifier were fed the same MaxMsgLen bytes in chunks
C8_Witness ==
    \E c, d \in Live :
       /\ SignsFor(c, d)
       /\ SameStream(c, d)
       /\ Len(mdctxs[ctx[c].mdctx].data) = MaxMsgLen

\* C9: size-query agreement.  On a context with a key, dsa_sign without a
\* buffer returns DSA_size of the key, whatever the other arguments,
\* without calling the key primitive; with a buffer of one byte less it
\* fails for the buffer, with a buffer of exactly that size it does not
\* fail for the buffer; and a dsa_sign call changes nothing in the context.
C9_SizeQueryAgreement ==
    /\ [](\A c \in Live :
            ctx[c].dsa # NULL =>
               \A tbs \in TbsInputs, sign_ok \in BOOLEAN :
                  /\ \A sigsize \in SigSizes(ctx[c].dsa) \cup {0} :
                        LET q == dsa_sign(ctx[c], FALSE, sigsize, tbs, sign_ok)
                        IN  /\ q.ret = 1
                            /\ q.siglen = DSA_size(ctx[c].dsa)
                            /\ ~q.called
                  /\ LET small == dsa_sign(ctx[c], TRUE, DSA_size(ctx[c].dsa) - 1,
                                           tbs, sign_ok)
                     IN  small.ret = 0 /\ small.why = "sigsize" /\ ~small.called
                  /\ dsa_sign(ctx[c], TRUE, DSA_size(ctx[c].dsa), tbs,
                              sign_ok).why # "sigsize")
    /\ [][last'.op = "sign" => UNCHANGED <<ctx, mdctxs>>]_vars

\* a size query was answered
C9_Witness ==
    /\ last.op = "sign"
    /\ last.why = "size_query"
    /\ last.ret = 1

\* the sequences of at most two chunks a host feeds to a stream
ChunkSeqs ==
    {<<>>} \cup {<<a>> : a \in Chunks} \cup {<<a, b>> : a, b \in Chunks}

\* the heap after dsa_digest_signverify_update fed the chunks to p's stream
RECURSIVE Feed(_, _, _)
Feed(p, h, chunks) ==
    IF chunks = <<>> THEN h
    ELSE Feed(p, dsa_digest_signverify_update(p, h, Head(chunks), TRUE).h,
              Tail(chunks))

\* what dsa_digest_sign_final into a buffer of DSA_size gives on p once the
\* chunks were fed to its stream
FedFinal(p, h, chunks) ==
    LET r == dsa_digest_sign_final(p, Feed(p, h, chunks), TRUE,
                                   DSA_size(p.dsa), TRUE, TRUE)
    IN  [ret |-> r.ret, digest |-> r.digest, sig |-> r.sig]

\* the part of the state that belongs to the context x: its fields and the
\* state of its stream
Owned(c, h, x) ==
    [p |-> c[x], stream |-> IF c[x].mdctx # 0 THEN h[c[x].mdctx] ELSE NewMdCtx]

\* C10: duplication equivalence and independence of the stream.  A
\* duplicate taken while a stream is in progress has a stream of its own
\* and the source's flag_allow_md, the same chunks fed to source and
\* duplicate give the same digest value and the same finalize result on
\* both, and no call changes the fields or the stream of two contexts.
C10_DupEquivalentIndependent ==
    /\ []((last.op = "dupctx" /\ last.ret = 1
           /\ InProgress(ctx[last.c], mdctxs)) =>
             /\ ctx[last.d].mdctx # 0
             /\ ctx[last.d].mdctx # ctx[last.c].mdctx
             /\ ctx[last.d].flag_allow_md = ctx[last.c].flag_allow_md
             /\ \A chunks \in ChunkSeqs :
                   FedFinal(ctx[last.d], mdctxs, chunks) =
                   FedFinal(ctx[last.c], mdctxs, chunks))
    /\ [][\A x, y \in Live \cap DOMAIN ctx' :
             ( /\ x # y
               /\ Owned(ctx', mdctxs', x) # Owned(ctx, mdctxs, x) ) =>
                 Owned(ctx', mdctxs', y) = Owned(ctx, mdctxs, y)]_vars

\* a context was duplicated while its stream had taken bytes
C10_Witness ==
    /\ last.op = "dupctx"
    /\ last.ret = 1
    /\ InProgress(ctx[last.c], mdctxs)
    /\ Len(mdctxs[ctx[last.c].mdctx].data) >= 1
    /\ ctx[last.d].mdctx # 0

\* C11: the duplicate's AlgorithmIdentifier is copied by value.  Right
\* after dsa_dupctx, dsa_get_ctx_params gives the same bytes and length on
\* the duplicate as on the source; and whatever a call does to other
\* contexts (binding another digest on the source, freeing the source),
\* what dsa_get_ctx_params gives on a context whose own fields the call
\* left alone stays the same.
C11_AidCopiedByValue ==
    /\ []((last.op = "dupctx" /\ last.ret = 1) =>
             dsa_get_ctx_params(ctx[last.d], ctx) =
             dsa_get_ctx_params(ctx[last.c], ctx))
    /\ [][\A x \in Live \cap DOMAIN ctx' :
             ctx'[x] = ctx[x] =>
                dsa_get_ctx_params(ctx'[x], ctx') =
                dsa_get_ctx_params(ctx[x], ctx)]_vars

\* the references the live contexts hold to the object obj
Held(obj) ==
    Cardinality({c \in Live : ctx[c].dsa = obj}) +
    Cardinality({c \in Live : ctx[c].md = obj})

\* C12: reference balance.  After any sequence of calls, failing ones
\* included, the count of every key and digest object is the number of
\* live contexts that hold a reference to it; a dsa_dupctx that fails
\* leaves the contexts and every count as they were.
C12_ReferenceBalance ==
    /\ [](\A obj \in Objects : refs[obj] = Held(obj))
    /\ [][(last'.op = "dupctx" /\ last'.ret = 0) =>
             (refs' = refs /\ ctx' = ctx)]_vars

\* a dsa_dupctx failed after it had taken the references to the key and
\* the digest of its source
C12_Witness ==
    /\ last.op = "dupctx"
    /\ last.ret = 0
    /\ last.why \in {"mdctx_copy", "strdup"}
    /\ ctx[last.c].dsa # NULL
    /\ ctx[last.c].md # NULL
    /\ ctx[last.c].mdctx # 0

\* the property queries dsa_setup_md is given: none (the context's own is
\* used), the empty one of dsa_set_ctx_params, and one no provider matches
MdProps == {NULL, "", "provider=none"}

\* C13: a failed bind changes nothing.  Whenever dsa_setup_md would fail on
\* a context (the name cannot be fetched, the digest is not approved for
\* the operation, the name is too long), it leaves every field of the
\* context (md, mdname, aid_buf, aid, aid_len, mdctx), the stream objects
\* and the reference counts as they are; and it does fail for a name that
\* cannot be fetched and for one that is too long.
C13_FailedBindChangesNothing ==
    \A c \in Live :
       \A mdname \in MdNames, mdprops \in MdProps :
          LET r == dsa_setup_md(c, ctx[c], mdctxs, mdname, mdprops, TRUE) IN
          /\ r.ret = 0 =>
                /\ r.p = ctx[c]
                /\ r.h = mdctxs
                /\ dsa_setup_md_refs(refs, ctx[c], mdname, mdprops) = refs
          /\ (mdname \in {"NOSUCH", "MD5", LongName}
              \/ mdprops = "provider=none") => r.ret = 0

\* a bind failed in dsa_set_ctx_params on a context that has a digest bound,
\* an AlgorithmIdentifier and a stream object
C13_Witness ==
    /\ last.op = "set_ctx_params"
    /\ last.ret = 0
    /\ last.why = "setup_md"
    /\ ctx[last.c].md # NULL
    /\ ctx[last.c].aid_len > 0
    /\ ctx[last.c].mdctx # 0

\* what the streaming calls would return on the context p when every
\* external call succeeds: dsa_digest_signverify_update of a chunk,
\* dsa_digest_sign_final into a buffer of DSA_size, and
\* dsa_digest_verify_final of a signature of the stream's digest
StreamCalls(p, h) ==
    [update |-> dsa_digest_signverify_update(p, h, <<0>>, TRUE).ret,
     sign_final |-> dsa_digest_sign_final(p, h, TRUE, DSA_size(p.dsa), TRUE,
                                          TRUE).ret,
     verify_final |-> dsa_digest_verify_final(
                          p, h, DSA_sign_value(p.dsa, StreamDigest(p, h)),
                          TRUE).ret]

NotStreaming == [update |-> 0, sign_final |-> 0, verify_final |-> 0]

\* C14: streaming calls are accepted only while a stream is accumulating.
\* On a context with no stream, and on one whose stream a real finalize has
\* finalised and no digest init has replaced, dsa_digest_signverify_update,
\* dsa_digest_sign_final and dsa_digest_verify_final all fail.
C14_StreamingOnlyWhileAccumulating ==
    \A c \in Live :
       ~InProgress(ctx[c], mdctxs) => StreamCalls(ctx[c], mdctxs) = NotStreaming

\* C15: a failed digest init starts no stream.  After a
\* dsa_digest_sign_init or dsa_digest_verify_init that returned 0 the
\* context holds no stream, also when it held one before the call, and the
\* streaming calls fail on it.
C15_FailedInitNoStream ==
    (last.op = "digest_signverify_init" /\ last.ret = 0) =>
       /\ ctx[last.c].mdctx = 0
       /\ StreamCalls(ctx[last.c], mdctxs) = NotStreaming

\* C16: the digest parameter calls fail for want of a digest exactly when
\* no digest is bound.  On every context, dsa_get_ctx_md_params and
\* dsa_set_ctx_md_params reach the digest if and only if md is set; so they
\* do after dsa_set_ctx_params bound a digest on a context with no stream.
C16_MdParamsIffDigestBound ==
    \A c \in Live :
       /\ dsa_get_ctx_md_params(ctx[c], mdctxs, TRUE).forwarded
             <=> (ctx[c].md # NULL)
       /\ dsa_set_ctx_md_params(ctx[c], mdctxs, TRUE).forwarded
             <=> (ctx[c].md # NULL)

\* the AlgorithmIdentifier dsa_setup_md encodes for the digest md
AidOf(md) == DER_DSA_with_MD(ossl_digest_get_approved_nid_with_sha1(md, TRUE))

\* C17: the cached fields describe the bound digest.  In every state of
\* every context, mdname is empty when md is NULL and is the name of md
\* otherwise, and aid_len > 0 only if md is set and aid_buf holds the
\* identifier encoded for md.
C17_CachedFieldsDescribeDigest ==
    \A c \in Live :
       /\ ctx[c].md = NULL => ctx[c].mdname = ""
       /\ ctx[c].md # NULL => ctx[c].mdname = ctx[c].md
       /\ ctx[c].aid_len > 0 =>
             (ctx[c].md # NULL /\ ctx[c].aid_buf = AidOf(ctx[c].md))

\* C18: dsa_sign_init and dsa_verify_init record the operation only for a
\* key that passes validation: a call that returns 0 leaves the operation
\* of the context as it was.
C18_FailedInitKeepsOperation ==
    [][(last'.op = "signverify_init" /\ last'.ret = 0) =>
          ctx'[last'.c].operation = ctx[last'.c].operation]_vars

\* C19: a size query through dsa_digest_sign_final changes nothing.  On a
\* context with a stream in progress it returns DSA_size of the key, leaves
\* the context (flag_allow_md included) and its stream as they are, and a
\* real dsa_digest_sign_final after it signs the digest of the bytes that
\* were fed.
C19_SizeQueryFinalChangesNothing ==
    \A c \in Live :
       (InProgress(ctx[c], mdctxs) /\ ctx[c].dsa # NULL) =>
          \A sigsize \in SigSizes(ctx[c].dsa) \cup {0} :
             LET q == dsa_digest_sign_final(ctx[c], mdctxs, FALSE, sigsize,
                                            TRUE, TRUE)
                 s == dsa_digest_sign_final(q.p, q.h, TRUE,
                                            DSA_size(ctx[c].dsa), TRUE, TRUE)
             IN  /\ q.ret = 1
                 /\ q.siglen = DSA_size(ctx[c].dsa)
                 /\ q.p = ctx[c]
                 /\ q.h = mdctxs
                 /\ s.digest = Hash(mdctxs[ctx[c].mdctx].md,
                                    mdctxs[ctx[c].mdctx].data)

\* C20: no stream object is leaked.  In every state the stream objects that
\* are allocated and not freed are those the mdctx fields of the live
\* contexts point to.
C20_NoStreamLeak ==
    DOMAIN mdctxs = {ctx[c].mdctx : c \in Live} \ {0}

=============================================================================
